---------------------------- MODULE Spec2Model ----------------------------
(***************************************************************************)
(* A model of gmailsync: the archive storage engine (src/db/db.go, the     *)
(* second, current version of the package that starts at line 300) and the *)
(* fetch pipeline that drives it (src/unnamed/part_001, the command).      *)
(*                                                                         *)
(* The archive file is modelled byte for byte: a sequence of numbers in    *)
(* 0..255.  Three specifications share the variables:                      *)
(*   Spec      - the fetch command: Open, the scanner goroutine of         *)
(*               findNewUIDs and the fetchAndStore workers;                *)
(*   ApiSpec   - callers of the exported DB methods, every file system     *)
(*               call of a method being one step;                          *)
(*   CodecSpec - the record codec of writeRecord / nextRecord on its own.  *)
(***************************************************************************)
EXTENDS Integers, Sequences, FiniteSets, TLC

VARIABLES
    file,           \* the archive file's bytes
    pos,            \* the offset of db.fd, the one file cursor
    dbState,        \* "closed", "open", "error" (Open returned an error), "panic"
    labels,         \* db.labels: message id -> label list (<<>> when absent)
    labelsChanged,  \* db.labelsChanged, as the set of ids mapped to true
    haveMsgID,      \* db.haveMsgID, as the set of ids mapped to true
    mailbox,        \* the remote mailbox: [Messages, list of [UID, MsgID, Labels]]
    mpc,            \* where main is in its "fetch" case
    spc,            \* where the scanner goroutine of findNewUIDs is
    step,           \* findNewUIDs: step, the scan window
    begin,          \* findNewUIDs: begin, the scan cursor
    end,            \* findNewUIDs: end, the last sequence number of the listing request
    msgids,         \* findNewUIDs: the tuples of the round not yet looked at
    fetch,          \* findNewUIDs: fetch, the pairs sent in this round
    out,            \* the channel out: the pairs sent and not yet received
    closed,         \* whether close(out) has run
    wpc,            \* where each fetchAndStore worker is
    wmsg,           \* each worker's msgid and body
    progress,       \* the progress counters
    hist,           \* history: the ids of the pairs sent on out, and of the records the workers appended
    codec,          \* CodecSpec: one payload on its way through the codec
    cpc,            \* ApiSpec: where each caller of the db package is in its call
    cop,            \* ApiSpec: each caller's call in progress and its buffers
    lastCall,       \* ApiSpec: the call that returned last, and what it returned
    mutex,          \* ApiSpec: the caller that holds db.Mutex, or 0
    ncalls,         \* ApiSpec: the calls begun
    xout            \* ExportSpec: the units mbox has written, each a list of lines

dbVars == <<file, pos, dbState, labels, labelsChanged, haveMsgID>>
scanVars == <<spc, step, begin, end, msgids, fetch>>
fetchVars == <<mailbox, mpc, spc, step, begin, end, msgids, fetch, out, closed, wpc, wmsg, progress, hist>>
vars == <<file, pos, dbState, labels, labelsChanged, haveMsgID,
          mailbox, mpc, spc, step, begin, end, msgids, fetch, out, closed, wpc, wmsg, progress, hist,
          codec, cpc, cop, lastCall, mutex, ncalls, xout>>
apiVars == <<cpc, cop, lastCall, mutex, ncalls>>

-----------------------------------------------------------------------------
(* Bounds of the model *)

\* message ids are 1..MaxMsgId
MaxMsgId == 2
\* codec payloads are at most MaxLen bytes long
MaxLen == 2
\* the fetch command runs NumWorkers workers (maxConnections - 1)
NumWorkers == 2
\* ApiSpec: NumCallers goroutines call the db package
NumCallers == 2
\* ApiSpec: at most MaxCalls calls begin
MaxCalls == 3
\* ApiSpec: no write ends beyond offset MaxFileLen
MaxFileLen == 512
\* ExportSpec: archives of every sequence of at most MaxRecords records
MaxRecords == 3

-----------------------------------------------------------------------------
(* Bytes and fixed-width little-endian integers (encoding/binary) *)

Min(a, b) == IF a < b THEN a ELSE b

RECURSIVE SumSeq(_)
SumSeq(s) == IF s = <<>> THEN 0 ELSE s[1] + SumSeq(Tail(s))

RECURSIVE WSumSeq(_, _)
\* the sum of the bytes weighted by their index, starting at index k
WSumSeq(s, k) == IF s = <<>> THEN 0 ELSE k * s[1] + WSumSeq(Tail(s), k + 1)

Zeros(n) == [i \in 1..n |-> 0]

le16(n) == <<n % 256, (n \div 256) % 256>>
le32(n) == <<n % 256, (n \div 256) % 256, (n \div 65536) % 256, (n \div 16777216) % 256>>

\* the value of two little-endian bytes at offset i (1-based) of s
u16at(s, i) == s[i] + 256 * s[i + 1]

\* TLC's integers are 32 bits wide: a length field of 2^31 or more is read as
\* 2^31 - 1, which like the true value exceeds every file of the model.
u32at(s, i) ==
    IF s[i + 3] >= 128 THEN 2147483647
    ELSE s[i] + 256 * s[i + 1] + 65536 * s[i + 2] + 16777216 * s[i + 3]

-----------------------------------------------------------------------------
(* hash: crypto/sha1.  A 20-byte digest.  SHA-1 is modelled by a digest    *)
(* that is collision free on payloads of up to 19 bytes: digest byte k is  *)
(* the sum of the payload bytes at indexes congruent to k modulo 19, and   *)
(* the last byte is the payload length.                                    *)

HashLen == 20

hashCell(bs, k) ==
    SumSeq([j \in 1..((Len(bs) - k + (HashLen - 1)) \div (HashLen - 1)) |->
               j * bs[k + (j - 1) * (HashLen - 1)]]) % 256

hash(bs) ==
    [k \in 1..HashLen |-> IF k = HashLen THEN Len(bs) % 256 ELSE hashCell(bs, k)]

-----------------------------------------------------------------------------
(* compress / decompress: compress/gzip.  One gzip member is               *)
(*   a 10-byte header  ID1 ID2 CM FLG MTIME(4) XFL OS,                     *)
(*   a deflate stream, modelled as one final stored block                  *)
(*       1, LEN(2), NLEN(2), the data,                                     *)
(*   an 8-byte trailer CRC32(4) ISIZE(4).                                  *)
(* The reader checks ID1, ID2, CM, the block, the CRC and the size; it     *)
(* does not look at MTIME, XFL, OS or the FTEXT flag.  Header flags that   *)
(* announce optional fields make it read fields the writer never wrote:    *)
(* modelled as a failure.  Bytes after a member are read as a next member. *)

GzID1 == 31
GzID2 == 139
GzDeflate == 8
GzOSUnknown == 255
GzHeaderLen == 10
GzTrailerLen == 8
StoredBlockLen == 5

\* hash/crc32 of the data, modelled by a 4-byte checksum
crc32(bs) ==
    <<SumSeq(bs) % 256, (SumSeq(bs) \div 256) % 256, WSumSeq(bs, 1) % 256, Len(bs) % 256>>

gzHeader == <<GzID1, GzID2, GzDeflate, 0, 0, 0, 0, 0, 0, GzOSUnknown>>

deflate(bs) == <<1>> \o le16(Len(bs)) \o le16(65535 - Len(bs)) \o bs

compress(bs) == gzHeader \o deflate(bs) \o crc32(bs) \o le32(Len(bs))

\* the length of the data of the member at the head of bs, or -1 when the
\* head of bs is no well-formed member
gzMemberData(bs) ==
    IF Len(bs) < GzHeaderLen + StoredBlockLen + GzTrailerLen THEN -1
    ELSE IF bs[1] # GzID1 \/ bs[2] # GzID2 \/ bs[3] # GzDeflate THEN -1
    ELSE IF bs[4] \div 2 # 0 THEN -1
    ELSE IF bs[GzHeaderLen + 1] # 1 THEN -1
    ELSE LET n == u16at(bs, GzHeaderLen + 2) IN
         IF u16at(bs, GzHeaderLen + 4) # 65535 - n THEN -1
         ELSE IF Len(bs) < GzHeaderLen + StoredBlockLen + n + GzTrailerLen THEN -1
         ELSE LET d0 == GzHeaderLen + StoredBlockLen
                  data == SubSeq(bs, d0 + 1, d0 + n)
              IN IF SubSeq(bs, d0 + n + 1, d0 + n + 4) # crc32(data) THEN -1
                 ELSE IF SubSeq(bs, d0 + n + 5, d0 + n + 8) # le32(n) THEN -1
                 ELSE n

RECURSIVE decompress(_)

\* the data of two members, one after the other
joinMembers(data, more) ==
    IF more.ok THEN [ok |-> TRUE, data |-> data \o more.data] ELSE more

\* the member at the head of bs holds n bytes of data (n < 0: it is not
\* well formed)
decompressMember(bs, n) ==
    IF n < 0 THEN [ok |-> FALSE, data |-> <<>>]
    ELSE IF Len(bs) = GzHeaderLen + StoredBlockLen + n + GzTrailerLen
    THEN [ok |-> TRUE,
          data |-> SubSeq(bs, GzHeaderLen + StoredBlockLen + 1, GzHeaderLen + StoredBlockLen + n)]
    ELSE joinMembers(SubSeq(bs, GzHeaderLen + StoredBlockLen + 1,
                            GzHeaderLen + StoredBlockLen + n),
                     decompress(SubSeq(bs, GzHeaderLen + StoredBlockLen + n + GzTrailerLen + 1,
                                       Len(bs))))

\* gzip.NewReader and ioutil.ReadAll; [ok |-> FALSE] is the panic(err)
decompress(bs) == decompressMember(bs, gzMemberData(bs))

-----------------------------------------------------------------------------
(* The record codec of writeRecord and nextRecord *)

FeatureCompressed == 1
FeatureHashed == 2

hasFeature(features, bit) == (features \div bit) % 2 = 1

\* writeRecord, lines 579-583: the payload, compressed or as it is
storedBody(features, data) ==
    IF hasFeature(features, FeatureCompressed) THEN compress(data) ELSE data

\* a hash taken of the bytes as stored, after compression
storedHash_ofStored(features, data) ==
    IF hasFeature(features, FeatureHashed) THEN hash(storedBody(features, data)) ELSE <<>>

\* writeRecord, lines 576-578: the hash that goes before the payload
storedHash(features, data) ==
    IF hasFeature(features, FeatureHashed) THEN hash(data) ELSE <<>>

\* writeRecord, lines 574-583: the bytes bs stored after the record header
storedBytes(features, data) == storedHash(features, data) \o storedBody(features, data)

RecordHeaderLen == 8

\* binary.Write of Header{rtype, features, uint32(len(bs))}
headerBytes(rtype, features, length) == le16(rtype) \o le16(features) \o le32(length)

\* a reader that does not compare the hashes
hashOK_unchecked(data, dhash) == Len(dhash) = HashLen

\* nextRecord, lines 546-551: the hash of the data against the stored hash
hashOK(data, dhash) == hash(data) = dhash

\* nextRecord, lines 542-544
decodeBody(features, body) ==
    IF hasFeature(features, FeatureCompressed) THEN decompress(body)
    ELSE [ok |-> TRUE, data |-> body]

\* nextRecord, lines 546-551, for the decompressed data dec
checkedPayload(features, dhash, dec) ==
    IF ~dec.ok THEN [status |-> "panic", data |-> <<>>]
    ELSE IF hasFeature(features, FeatureHashed) /\ ~hashOK(dec.data, dhash)
    THEN [status |-> "panic", data |-> <<>>]
    ELSE [status |-> "ok", data |-> dec.data]

\* nextRecord, lines 536-551: the payload of the stored bytes buf;
\* data[:20] of a shorter buffer panics
decodePayload(features, buf) ==
    IF ~hasFeature(features, FeatureHashed)
    THEN checkedPayload(features, <<>>, decodeBody(features, buf))
    ELSE IF Len(buf) < HashLen THEN [status |-> "panic", data |-> <<>>]
    ELSE checkedPayload(features, SubSeq(buf, 1, HashLen),
                        decodeBody(features, SubSeq(buf, HashLen + 1, Len(buf))))

-----------------------------------------------------------------------------
(* encoding/asn1: DER of the two record payloads.  Lengths below 128 take  *)
(* one length byte, lengths up to 255 take two (0x81, n).  Message ids of  *)
(* the model are below 128 and take one INTEGER content byte.              *)

TagInteger == 2
TagOctetString == 4
TagSequence == 48

derTLV(tag, content) ==
    IF Len(content) < 128 THEN <<tag, Len(content)>> \o content
    ELSE <<tag, 129, Len(content)>> \o content

derInt(n) == derTLV(TagInteger, <<n>>)

RECURSIVE derConcat(_)
derConcat(parts) == IF parts = <<>> THEN <<>> ELSE parts[1] \o derConcat(Tail(parts))

\* asn1.Marshal(MessageRecord{MessageID, Data})
MarshalMessage(msgid, data) ==
    derTLV(TagSequence, derInt(msgid) \o derTLV(TagOctetString, data))

derLabelsEntry(e) ==
    derTLV(TagSequence,
           derInt(e.MessageID)
           \o derTLV(TagSequence,
                     derConcat([i \in 1..Len(e.Labels) |->
                                   derTLV(TagOctetString, e.Labels[i])])))

\* asn1.Marshal(LabelsRecord): a nil record is the empty SEQUENCE
MarshalLabels(lbls) ==
    derTLV(TagSequence, derConcat([i \in 1..Len(lbls) |-> derLabelsEntry(lbls[i])]))

\* the tag-length-value at the head of bs: [ok, tag, content, rest]
NoTLV == [ok |-> FALSE, tag |-> 0, content |-> <<>>, rest |-> <<>>]

parseTLV(bs) ==
    IF Len(bs) < 2 THEN NoTLV
    ELSE IF bs[2] < 128 THEN
        IF Len(bs) < 2 + bs[2] THEN NoTLV
        ELSE [ok |-> TRUE, tag |-> bs[1], content |-> SubSeq(bs, 3, 2 + bs[2]),
              rest |-> SubSeq(bs, 3 + bs[2], Len(bs))]
    ELSE IF bs[2] = 129 /\ Len(bs) >= 3 /\ bs[3] >= 128 THEN
        IF Len(bs) < 3 + bs[3] THEN NoTLV
        ELSE [ok |-> TRUE, tag |-> bs[1], content |-> SubSeq(bs, 4, 3 + bs[3]),
              rest |-> SubSeq(bs, 4 + bs[3], Len(bs))]
    ELSE NoTLV

\* an INTEGER of one content byte, non-negative
intOf(t) ==
    IF t.ok /\ t.tag = TagInteger /\ Len(t.content) = 1 /\ t.content[1] < 128
    THEN [ok |-> TRUE, value |-> t.content[1], rest |-> t.rest]
    ELSE [ok |-> FALSE, value |-> 0, rest |-> <<>>]

parseInt(bs) == intOf(parseTLV(bs))

NoMessage == [ok |-> FALSE, MessageID |-> 0, Data |-> <<>>]

\* the OCTET STRING MessageData that ends the record
messageData(msgid, body) ==
    IF body.ok /\ body.tag = TagOctetString /\ body.rest = <<>>
    THEN [ok |-> TRUE, MessageID |-> msgid, Data |-> body.content]
    ELSE NoMessage

\* the INTEGER MessageID, then the rest of the record
messageFields(id) == IF id.ok THEN messageData(id.value, parseTLV(id.rest)) ELSE NoMessage

messageSequence(outer) ==
    IF outer.ok /\ outer.tag = TagSequence THEN messageFields(parseInt(outer.content))
    ELSE NoMessage

\* asn1.Unmarshal(data, &msg); bytes after the outer SEQUENCE are the
\* "rest" that the callers drop
UnmarshalMessage(bs) == messageSequence(parseTLV(bs))

RECURSIVE parseOctetStrings(_)

consItem(item, more) == [ok |-> more.ok, items |-> <<item>> \o more.items]

octetStringsFrom(t) ==
    IF t.ok /\ t.tag = TagOctetString THEN consItem(t.content, parseOctetStrings(t.rest))
    ELSE [ok |-> FALSE, items |-> <<>>]

\* SEQUENCE OF OCTET STRING: [ok, items]
parseOctetStrings(bs) ==
    IF bs = <<>> THEN [ok |-> TRUE, items |-> <<>>] ELSE octetStringsFrom(parseTLV(bs))

NoEntry == [ok |-> FALSE, entry |-> [MessageID |-> 0, Labels |-> <<>>]]

entryLabels(msgid, items) ==
    IF items.ok THEN [ok |-> TRUE, entry |-> [MessageID |-> msgid, Labels |-> items.items]]
    ELSE NoEntry

entryLabelList(msgid, ls) ==
    IF ls.ok /\ ls.tag = TagSequence /\ ls.rest = <<>>
    THEN entryLabels(msgid, parseOctetStrings(ls.content))
    ELSE NoEntry

entryFields(id) == IF id.ok THEN entryLabelList(id.value, parseTLV(id.rest)) ELSE NoEntry

\* one LabelsEntry: INTEGER MessageID, SEQUENCE OF OCTET STRING
parseLabelsEntry(bs) == entryFields(parseInt(bs))

RECURSIVE parseLabelsEntries(_)

consEntry(e, more) ==
    IF e.ok THEN [ok |-> more.ok, entries |-> <<e.entry>> \o more.entries]
    ELSE [ok |-> FALSE, entries |-> <<>>]

entriesFrom(t) ==
    IF t.ok /\ t.tag = TagSequence
    THEN consEntry(parseLabelsEntry(t.content), parseLabelsEntries(t.rest))
    ELSE [ok |-> FALSE, entries |-> <<>>]

\* SEQUENCE OF LabelsEntry: [ok, entries]
parseLabelsEntries(bs) ==
    IF bs = <<>> THEN [ok |-> TRUE, entries |-> <<>>] ELSE entriesFrom(parseTLV(bs))

labelsSequence(outer) ==
    IF outer.ok /\ outer.tag = TagSequence THEN parseLabelsEntries(outer.content)
    ELSE [ok |-> FALSE, entries |-> <<>>]

\* asn1.Unmarshal(data, &lbl)
UnmarshalLabels(bs) == labelsSequence(parseTLV(bs))

-----------------------------------------------------------------------------
(* The archive file: the 40-byte FileHeader and the records after it *)

AnyType == 0
MessageRecordType == 1
LabelsRecordType == 2
DeleteRecordType == 3

\* fileMagic = 0x20121025
fileMagic == 538054693
\* binary.Size(FileHeader{}): 4 + 1 + 1 + 2 + 4 + 4 + 8 + 8 + 8
fileHeaderLength == 40

MsgIds == 1..MaxMsgId

\* time.Now().Unix() at creation
CreateTimes == {1351123200, 1351209600}

\* binary.Write of FileHeader{Magic: fileMagic, Version: 1, CreateTime: now}
fileHeaderBytes(now) == le32(fileMagic) \o <<1, 0, 0, 0>> \o le32(now) \o Zeros(28)

\* one record as writeRecord lays it out: header, then the stored bytes
recordBytes(rtype, features, data) ==
    LET bs == storedBytes(features, data) IN
    headerBytes(rtype, features, Len(bs)) \o bs

\* a write of bytes at offset p of f (0-based), as write(2) does it: a write
\* that starts past the end leaves a hole of zeros
pwrite(f, p, bytes) ==
    IF p >= Len(f) THEN f \o Zeros(p - Len(f)) \o bytes
    ELSE SubSeq(f, 1, p) \o bytes \o SubSeq(f, p + Len(bytes) + 1, Len(f))

\* the buffer make([]byte, length) after fd.Read put n bytes in it: the
\* rest stays zero.  No more than MaxPad zeros are kept in the model.
MaxPad == 32

readBuffer(f, p, n, length) == SubSeq(f, p + 1, p + n) \o Zeros(Min(length - n, MaxPad))

NoRecord == [type |-> AnyType, MessageID |-> 0, Data |-> <<>>, entries |-> <<>>]

\* nextRecord, lines 554-560: asn1.Unmarshal failed is panic(err)
messageRecord(m) ==
    IF m.ok THEN [status |-> "rec",
                  rec |-> [NoRecord EXCEPT !.type = MessageRecordType,
                                           !.MessageID = m.MessageID, !.Data = m.Data]]
    ELSE [status |-> "panic", rec |-> NoRecord]

\* nextRecord, lines 562-568
labelsRecordOf(l) ==
    IF l.ok THEN [status |-> "rec",
                  rec |-> [NoRecord EXCEPT !.type = LabelsRecordType, !.entries = l.entries]]
    ELSE [status |-> "panic", rec |-> NoRecord]

\* nextRecord, lines 553-569: the record of a decoded payload; "skip" is a
\* record type that the switch has no case for
typedRecord(rtype, data) ==
    IF rtype = MessageRecordType THEN messageRecord(UnmarshalMessage(data))
    ELSE IF rtype = LabelsRecordType THEN labelsRecordOf(UnmarshalLabels(data))
    ELSE [status |-> "skip", rec |-> NoRecord]

\* nextRecord, lines 530-534: how many bytes fd.Read(data) returns at
\* offset p for a buffer of the given length; -1 is io.EOF
readCount(f, p, length) ==
    IF length = 0 THEN 0
    ELSE IF p >= Len(f) THEN -1
    ELSE Min(length, Len(f) - p)

\* the largest offset of the model: TLC's integers are 32 bits wide
MaxOffset == 2147483000

\* nextRecord, line 526: db.fd.Seek(int64(hdr.Length), os.SEEK_CUR) at offset p
seekCur(p, n) == IF n > MaxOffset - p THEN MaxOffset ELSE p + n

RECURSIVE nextRecord(_, _, _)

\* nextRecord, lines 553-570, with the cursor at p after the payload
recordOrNext(f, p, recordType, typed) ==
    IF typed.status = "skip" THEN nextRecord(f, p, recordType)
    ELSE [status |-> typed.status, rec |-> typed.rec, pos |-> p]

\* nextRecord, lines 536-570
decodedRecord(f, p, recordType, rtype, payload) ==
    IF payload.status = "panic" THEN [status |-> "panic", rec |-> NoRecord, pos |-> p]
    ELSE recordOrNext(f, p, recordType, typedRecord(rtype, payload.data))

\* nextRecord, lines 530-570: the payload of a record whose header ends at
\* p, fd.Read having returned n bytes
readRecord(f, p, recordType, rtype, features, length, n) ==
    IF n < 0 THEN [status |-> "eof", rec |-> NoRecord, pos |-> p]
    ELSE decodedRecord(f, p + n, recordType, rtype,
                       decodePayload(features, readBuffer(f, p, n, length)))

\* nextRecord, lines 525-534: the record whose header ends at p
headedRecord(f, p, recordType, rtype, features, length) ==
    IF recordType # AnyType /\ rtype # recordType
    THEN nextRecord(f, seekCur(p, length), recordType)
    ELSE readRecord(f, p, recordType, rtype, features, length, readCount(f, p, length))

\* db.nextRecord(recordType) with the cursor at offset p of f:
\* [status, rec, pos]; status is "rec", "eof" (io.EOF), "err" (another
\* error: io.ErrUnexpectedEOF of a header cut short) or "panic"
nextRecord(f, p, recordType) ==
    IF p >= Len(f) THEN [status |-> "eof", rec |-> NoRecord, pos |-> p]
    ELSE IF Len(f) - p < RecordHeaderLen
    THEN [status |-> "err", rec |-> NoRecord, pos |-> Len(f)]
    ELSE headedRecord(f, p + RecordHeaderLen, recordType,
                      u16at(f, p + 1), u16at(f, p + 3), u32at(f, p + 5))

\* make(map[int64][]string)
NoLabels == [m \in {} |-> <<>>]

\* a map whose first value for a key stays
putLabels_keepFirst(lbls, msgid, value) ==
    [m \in DOMAIN lbls \cup {msgid} |-> IF m \in DOMAIN lbls THEN lbls[m] ELSE value]

\* db.labels[msgid] = lbls
putLabels(lbls, msgid, value) ==
    [m \in DOMAIN lbls \cup {msgid} |-> IF m = msgid THEN value ELSE lbls[m]]

RECURSIVE applyLabels(_, _)
\* Open, lines 420-422: the entries of one Labels record, in order
applyLabels(lbls, entries) ==
    IF entries = <<>> THEN lbls
    ELSE applyLabels(putLabels(lbls, entries[1].MessageID, entries[1].Labels), Tail(entries))

RECURSIVE replay(_, _, _, _)

\* Open, lines 409-423: what Open does with the result r of nextRecord
replayRecord(f, lbls, have, r) ==
    IF r.status = "eof"
    THEN [state |-> "open", labels |-> lbls, haveMsgID |-> have, pos |-> r.pos]
    ELSE IF r.status = "panic"
    THEN [state |-> "panic", labels |-> lbls, haveMsgID |-> have, pos |-> r.pos]
    ELSE IF r.status = "err"
    THEN [state |-> "error", labels |-> lbls, haveMsgID |-> have, pos |-> r.pos]
    ELSE IF r.rec.type = MessageRecordType
    THEN replay(f, r.pos, lbls, have \cup {r.rec.MessageID})
    ELSE replay(f, r.pos, applyLabels(lbls, r.rec.entries), have)

\* Open, lines 407-424: the loop over nextRecord(AnyType)
replay(f, p, lbls, have) == replayRecord(f, lbls, have, nextRecord(f, p, AnyType))

\* a check of the header's length alone
magicOK_lengthOnly(f) == Len(f) >= fileHeaderLength

\* Open, lines 401-404: the magic of an existing file; binary.Read leaves
\* fhdr zero when the file is shorter than a FileHeader
magicOK(f) == Len(f) >= fileHeaderLength /\ u32at(f, 1) = fileMagic

\* Open, lines 426-427: Rewind and return, or the error, or the panic
replayed(f, r) ==
    [state |-> r.state, file |-> f,
     labels |-> IF r.state = "open" THEN r.labels ELSE NoLabels,
     haveMsgID |-> IF r.state = "open" THEN r.haveMsgID ELSE {},
     pos |-> IF r.state = "open" THEN fileHeaderLength ELSE r.pos]

\* db.Open on the file f at time now: the file it leaves and the DB it
\* returns (state "open"), or state "error" or "panic" and no DB
openResult(f, now) ==
    IF f = <<>> THEN
        [state |-> "open", file |-> fileHeaderBytes(now), labels |-> NoLabels,
         haveMsgID |-> {}, pos |-> fileHeaderLength]
    ELSE IF ~magicOK(f) THEN
        [state |-> "error", file |-> f, labels |-> NoLabels, haveMsgID |-> {},
         pos |-> Min(Len(f), fileHeaderLength)]
    ELSE replayed(f, replay(f, fileHeaderLength, NoLabels, {}))

-----------------------------------------------------------------------------
(* The methods of DB, each under db.Lock() from start to end *)

\* db.Labels(msgid): the value of a missing key is nil
Labels(msgid) == IF msgid \in DOMAIN labels THEN labels[msgid] ELSE <<>>

\* an index that knows no message
HaveUID_never(msgid) == msgid \in {}

\* db.HaveUID(msgid)
HaveUID(msgid) == msgid \in haveMsgID

\* db.Size()
Size == Cardinality(haveMsgID)

\* db.SetLabels(msgid, lbls)
SetLabels(msgid, lbls) ==
    /\ labels' = putLabels(labels, msgid, lbls)
    /\ labelsChanged' = labelsChanged \cup {msgid}

\* writeRecord, lines 587-590: seek to the end, write the header, write bs
appended(f, hdr, bs) == pwrite(pwrite(f, Len(f), hdr), Len(f) + Len(hdr), bs)

headerFor(rtype, features, bs) == headerBytes(rtype, features, Len(bs))

writeBytes(rtype, features, bs) ==
    /\ file' = appended(file, headerFor(rtype, features, bs), bs)
    /\ pos' = Len(file')

\* db.writeRecord(rtype, features, data)
writeRecord(rtype, features, data) == writeBytes(rtype, features, storedBytes(features, data))

\* db.WriteMessage(msgid, data)
WriteMessage(msgid, data) ==
    /\ writeRecord(MessageRecordType, FeatureCompressed + FeatureHashed,
                   MarshalMessage(msgid, data))
    /\ UNCHANGED <<labels, labelsChanged, haveMsgID>>

\* the orders in which "for msgid := range db.labelsChanged" may visit S
Orders(S) == {o \in [1..Cardinality(S) -> S] : \A i, j \in DOMAIN o : i # j => o[i] # o[j]}

\* a record of the ids in labelsChanged that leaves their labels out
labelsRecord_noLabels(order) == [i \in DOMAIN order |-> [MessageID |-> order[i], Labels |-> <<>>]]

\* WriteLabels, lines 503-506: the record of the ids in labelsChanged
labelsRecord(order) == [i \in DOMAIN order |-> [MessageID |-> order[i], Labels |-> Labels(order[i])]]

\* db.WriteLabels()
WriteLabels ==
    /\ \E order \in Orders(labelsChanged) :
           writeRecord(LabelsRecordType, FeatureCompressed, MarshalLabels(labelsRecord(order)))
    /\ labelsChanged' = {}
    /\ UNCHANGED <<labels, haveMsgID>>

-----------------------------------------------------------------------------
(* The remote mailbox (package imap), at its interface *)

La == <<97>>
Lb == <<98>>

Msg(seq, uid, msgid, lbls) == [Seq |-> seq, UID |-> uid, MsgID |-> msgid, Labels |-> lbls]

\* Mailboxes of the model.  Messages is client.Mailbox.Messages; list holds
\* the messages a listing returns, by rising sequence number, each message
\* id once.  The mailboxes are sparse: the sequence numbers between the
\* listed ones stand for messages that a run neither fetches nor relabels.
Mailboxes ==
    { [Messages |-> 0, list |-> <<>>],
      [Messages |-> 1, list |-> <<Msg(1, 11, 1, <<La>>)>>],
      [Messages |-> 2, list |-> <<Msg(1, 11, 1, <<La>>), Msg(2, 12, 2, <<>>)>>],
      [Messages |-> 101, list |-> <<Msg(1, 11, 2, <<Lb, La>>), Msg(101, 111, 1, <<La>>)>>],
      [Messages |-> 300, list |-> <<Msg(150, 160, 1, <<Lb>>), Msg(250, 260, 2, <<La, Lb>>)>>],
      [Messages |-> 9600, list |-> <<Msg(3200, 3210, 1, <<La>>), Msg(6400, 6410, 2, <<La>>)>>] }

\* client.MsgIDSearch(first, last): the messages of the sequence set first:last
MsgIDSearch(first, last) ==
    SelectSeq(mailbox.list, LAMBDA m : first <= m.Seq /\ m.Seq <= last)

\* client.GetMail(uid): the RFC822 body of the message
GetMail(uid) == <<uid % 256>>

-----------------------------------------------------------------------------
(* Archive files the fetch command may find *)

FileHeader0 == fileHeaderBytes(1351123200)

MessageBytes(msgid, data) ==
    recordBytes(MessageRecordType, FeatureCompressed + FeatureHashed, MarshalMessage(msgid, data))

LabelsBytes(lbls) == recordBytes(LabelsRecordType, FeatureCompressed, MarshalLabels(lbls))

RecM1 == MessageBytes(1, <<1>>)
RecM2 == MessageBytes(2, <<>>)
RecL0 == LabelsBytes(<<>>)
RecL1 == LabelsBytes(<<[MessageID |-> 1, Labels |-> <<La>>]>>)
RecL2 == LabelsBytes(<<[MessageID |-> 2, Labels |-> <<La, Lb>>],
                       [MessageID |-> 1, Labels |-> <<Lb>>]>>)

\* archives as earlier runs leave them
WholeFiles ==
    { <<>>,
      FileHeader0,
      FileHeader0 \o RecL1 \o RecM1,
      FileHeader0 \o RecL1 \o RecL2 \o RecM1 \o RecM2 \o RecL0,
      FileHeader0 \o RecL2 \o RecM2 \o RecL1 }

\* archives whose last append was cut short by a crash: whole records,
\* then the first bytes of one more
TailCases ==
    { <<FileHeader0, RecL1>>,
      <<FileHeader0 \o RecL1, RecM1>>,
      <<FileHeader0 \o RecL1 \o RecM1, RecL2>> }

\* how many bytes of the last record reached the file
Kept(rec) == {3, RecordHeaderLen, RecordHeaderLen + 1, Len(rec) - 4, Len(rec) - 1}

TruncatedFiles == UNION {{t[1] \o SubSeq(t[2], 1, k) : k \in Kept(t[2])} : t \in TailCases}

\* the first bytes of a file of another format
ForeignHeader == <<71, 73, 70, 56>> \o Zeros(36)

\* files that are no archive: another format, alone and before a record;
\* a magic number with one byte changed; a file shorter than the magic number
ForeignFiles ==
    { ForeignHeader,
      ForeignHeader \o RecM1,
      <<37, 16, 18, 33>> \o SubSeq(FileHeader0, 5, fileHeaderLength) \o RecL1,
      <<37, 16, 18>> }

InitFiles == WholeFiles \cup TruncatedFiles \cup ForeignFiles

-----------------------------------------------------------------------------
(* Spec: the "fetch" case of main *)

\* the codec variable outside CodecSpec
IdleCodec ==
    [pc |-> "idle", p |-> <<>>, f |-> 0, hdr |-> <<>>, stored |-> <<>>,
     tampered |-> FALSE, out |-> [status |-> "none", data |-> <<>>]]

Workers == 1..NumWorkers

Callers == 1..NumCallers

\* a caller that is in no call
NoCall == [caller |-> 0, op |-> "none", msgid |-> 0, hdr |-> <<>>, bs |-> <<>>,
           ret |-> "none", n |-> 0, lbls |-> <<>>]

\* the callers outside ApiSpec
IdleApi ==
    /\ cpc = [c \in Callers |-> "idle"]
    /\ cop = [c \in Callers |-> NoCall]
    /\ lastCall = NoCall
    /\ mutex = 0
    /\ ncalls = 0

\* make(chan MsgID, step) with step = 100
ChanCap == 100

NoMsg == [UID |-> 0, MsgID |-> 0, body |-> <<>>]

\* nothing sent, nothing appended
NoHist == [emitted |-> <<>>, stored |-> <<>>]

IdleFetch ==
    /\ mailbox = [Messages |-> 0, list |-> <<>>]
    /\ mpc = "idle"
    /\ spc = "idle"
    /\ step = 0
    /\ begin = 0
    /\ end = 0
    /\ hist = NoHist
    /\ msgids = <<>>
    /\ fetch = 0
    /\ out = <<>>
    /\ closed = FALSE
    /\ wpc = [w \in Workers |-> "idle"]
    /\ wmsg = [w \in Workers |-> NoMsg]
    /\ progress = [toScan |-> 0, scanned |-> 0, fetched |-> 0, labels |-> 0]

Init ==
    /\ file \in InitFiles
    /\ pos = 0
    /\ dbState = "closed"
    /\ labels = NoLabels
    /\ labelsChanged = {}
    /\ haveMsgID = {}
    /\ mailbox \in Mailboxes
    /\ mpc = "start"
    /\ spc = "idle"
    /\ step = 0
    /\ begin = 0
    /\ end = 0
    /\ hist = NoHist
    /\ msgids = <<>>
    /\ fetch = 0
    /\ out = <<>>
    /\ closed = FALSE
    /\ wpc = [w \in Workers |-> "idle"]
    /\ wmsg = [w \in Workers |-> NoMsg]
    /\ progress = [toScan |-> 0, scanned |-> 0, fetched |-> 0, labels |-> 0]
    /\ codec = IdleCodec
    /\ IdleApi
    /\ xout = <<>>

\* the DB that Open returned, or none
Opened(r) ==
    /\ file' = r.file
    /\ pos' = r.pos
    /\ dbState' = r.state
    /\ labels' = r.labels
    /\ haveMsgID' = r.haveMsgID
    /\ labelsChanged' = {}

\* main, lines 88-91: db.Open; an error is log.Fatal
MainOpen ==
    /\ mpc = "start"
    /\ \E now \in CreateTimes : Opened(openResult(file, now))
    /\ mpc' = IF dbState' = "open" THEN "opened" ELSE "failed"
    /\ UNCHANGED <<mailbox, scanVars, out, closed, wpc, wmsg, progress, codec, apiVars, xout, hist>>

\* findNewUIDs, lines 141-157 and 209: connect, set toScan, make the
\* channel, start the scanner goroutine
MainFindNewUIDs ==
    /\ mpc = "opened"
    /\ progress' = [progress EXCEPT !.toScan = mailbox.Messages]
    /\ step' = 100
    /\ out' = <<>>
    /\ begin' = 1
    /\ spc' = "loop"
    /\ mpc' = "spawn"
    /\ UNCHANGED <<dbVars, mailbox, end, msgids, fetch, closed, wpc, wmsg, codec, apiVars, xout, hist>>

\* main, lines 109-113: start the workers; main then waits in wg.Wait()
MainSpawn ==
    /\ mpc = "spawn"
    /\ wpc' = [w \in Workers |-> "recv"]
    /\ mpc' = "wait"
    /\ UNCHANGED <<dbVars, mailbox, scanVars, out, closed, wmsg, progress, codec, apiVars, xout, hist>>

\* findNewUIDs, line 162: end := begin + step - 1
rangeEnd(b, s) == b + s - 1

\* a cursor that moves to the last number listed
nextBegin_atEnd(b, s) == b + s - 1

\* a cursor that stays where it is
nextBegin_stuck(b, s) == b

\* findNewUIDs, line 175: begin += step
nextBegin(b, s) == b + s

\* findNewUIDs, lines 161-175: one listing request
ScanSearch ==
    /\ spc = "loop"
    /\ begin < mailbox.Messages
    /\ end' = rangeEnd(begin, step)
    /\ msgids' = MsgIDSearch(begin, end')
    /\ progress' = [progress EXCEPT !.scanned = @ + Len(msgids')]
    /\ begin' = nextBegin(begin, step)
    /\ fetch' = 0
    /\ spc' = "tuple"
    /\ UNCHANGED <<dbVars, mailbox, mpc, step, out, closed, wpc, wmsg, codec, apiVars, xout, hist>>

\* findNewUIDs, lines 178-190: one tuple of the listing.  The send blocks
\* while the channel is full.
ScanTuple ==
    /\ spc = "tuple"
    /\ msgids # <<>>
    /\ LET m == Head(msgids)
           new == ~HaveUID(m.MsgID)
           relabel == m.Labels # Labels(m.MsgID)
       IN /\ new => Len(out) < ChanCap
          /\ out' = IF new THEN Append(out, [UID |-> m.UID, MsgID |-> m.MsgID]) ELSE out
          /\ hist' = IF new THEN [hist EXCEPT !.emitted = Append(@, m.MsgID)] ELSE hist
          /\ fetch' = IF new THEN fetch + 1 ELSE fetch
          /\ IF relabel
             THEN /\ SetLabels(m.MsgID, m.Labels)
                  /\ progress' = [progress EXCEPT !.labels = @ + 1]
             ELSE UNCHANGED <<labels, labelsChanged, progress>>
    /\ msgids' = Tail(msgids)
    /\ UNCHANGED <<file, pos, dbState, haveMsgID, mailbox, mpc, spc, step, begin, end,
                   closed, wpc, wmsg, codec, apiVars, xout>>

\* findNewUIDs, lines 192-195: the label flush of the round
ScanWriteLabels ==
    /\ spc = "tuple"
    /\ msgids = <<>>
    /\ WriteLabels
    /\ spc' = "adjust"
    /\ UNCHANGED <<dbState, mailbox, mpc, step, begin, end, msgids, fetch, out, closed,
                   wpc, wmsg, progress, codec, apiVars, xout, hist>>

\* a window without the ceiling
nextStep_noCeiling(s, n) ==
    IF n = 0 THEN s * 2
    ELSE IF n > 0 /\ s > 100 THEN s \div 2
    ELSE s

\* findNewUIDs, lines 197-204: the window for the next round
nextStep(s, n) ==
    IF n = 0 /\ s < 3200 THEN s * 2
    ELSE IF n > 0 /\ s > 100 THEN s \div 2
    ELSE s

ScanAdjust ==
    /\ spc = "adjust"
    /\ step' = nextStep(step, fetch)
    /\ spc' = "loop"
    /\ UNCHANGED <<dbVars, mailbox, mpc, begin, end, msgids, fetch, out, closed,
                   wpc, wmsg, progress, codec, apiVars, xout, hist>>

\* findNewUIDs, lines 161 and 206: the loop ends, close(out)
ScanClose ==
    /\ spc = "loop"
    /\ ~(begin < mailbox.Messages)
    /\ closed' = TRUE
    /\ spc' = "done"
    /\ UNCHANGED <<dbVars, mailbox, mpc, step, begin, end, msgids, fetch, out,
                   wpc, wmsg, progress, codec, apiVars, xout, hist>>

\* a receive that leaves the pair in the channel
received_kept(ch) == ch

\* the channel after "msgid, ok := <-msgids" has taken its first pair
received(ch) == Tail(ch)

\* fetchAndStore, lines 243-254: receive a pair and get its body
WorkerRecv(w) ==
    /\ wpc[w] = "recv"
    /\ out # <<>>
    /\ wmsg' = [wmsg EXCEPT ![w] = [UID |-> Head(out).UID, MsgID |-> Head(out).MsgID,
                                    body |-> GetMail(Head(out).UID)]]
    /\ out' = received(out)
    /\ wpc' = [wpc EXCEPT ![w] = "write"]
    /\ UNCHANGED <<dbVars, mailbox, mpc, scanVars, closed, progress, codec, apiVars, xout, hist>>

\* fetchAndStore, lines 243-246: the receive on the closed, drained channel
\* gives ok = false, and "break" leaves the select statement
WorkerRecvClosed(w) ==
    /\ wpc[w] = "recv"
    /\ out = <<>>
    /\ closed
    /\ wmsg' = [wmsg EXCEPT ![w] = NoMsg]
    /\ wpc' = [wpc EXCEPT ![w] = "break"]
    /\ UNCHANGED <<dbVars, mailbox, mpc, scanVars, out, closed, progress, codec, apiVars, xout, hist>>

\* fetchAndStore, lines 241-265: after the "break" of line 245 comes the
\* statement after the select, which is the end of the body of "for {":
\* the worker receives again.  wg.Done() of line 267 is never reached.
WorkerAfterBreak(w) ==
    /\ wpc[w] = "break"
    /\ wpc' = [wpc EXCEPT ![w] = "recv"]
    /\ UNCHANGED <<dbVars, mailbox, mpc, scanVars, out, closed, wmsg, progress, codec, apiVars, xout, hist>>

\* fetchAndStore, lines 256-259: db.WriteMessage
WorkerWrite(w) ==
    /\ wpc[w] = "write"
    /\ WriteMessage(wmsg[w].MsgID, wmsg[w].body)
    /\ hist' = [hist EXCEPT !.stored = Append(@, wmsg[w].MsgID)]
    /\ wpc' = [wpc EXCEPT ![w] = "count"]
    /\ UNCHANGED <<dbState, mailbox, mpc, scanVars, out, closed, wmsg, progress, codec, apiVars, xout>>

\* fetchAndStore, lines 261-263: progress.fetched++
WorkerCount(w) ==
    /\ wpc[w] = "count"
    /\ progress' = [progress EXCEPT !.fetched = @ + 1]
    /\ wpc' = [wpc EXCEPT ![w] = "recv"]
    /\ UNCHANGED <<dbVars, mailbox, mpc, scanVars, out, closed, wmsg, codec, apiVars, xout, hist>>

Next ==
    \/ MainOpen
    \/ MainFindNewUIDs
    \/ MainSpawn
    \/ ScanSearch
    \/ ScanTuple
    \/ ScanWriteLabels
    \/ ScanAdjust
    \/ ScanClose
    \/ \E w \in Workers : WorkerRecv(w)
    \/ \E w \in Workers : WorkerRecvClosed(w)
    \/ \E w \in Workers : WorkerAfterBreak(w)
    \/ \E w \in Workers : WorkerWrite(w)
    \/ \E w \in Workers : WorkerCount(w)

Spec == Init /\ [][Next]_vars

-----------------------------------------------------------------------------
(* CodecSpec: one payload is encoded as writeRecord encodes it, the stored *)
(* bytes may have one byte changed on disk, and are decoded as nextRecord  *)
(* decodes them.                                                           *)

PayloadBytes == {0, 1, 255}

\* the sequences over S of length n
SeqsOfLen(S, n) == [1..n -> S]

BoundedSeqs(S, n) == UNION {SeqsOfLen(S, k) : k \in 0..n}

Payloads == BoundedSeqs(PayloadBytes, MaxLen)

FeatureSets == {0, FeatureCompressed, FeatureHashed, FeatureHashed + FeatureCompressed}

CodecInit ==
    /\ file = <<>>
    /\ pos = 0
    /\ dbState = "closed"
    /\ labels = NoLabels
    /\ labelsChanged = {}
    /\ haveMsgID = {}
    /\ IdleFetch
    /\ IdleApi
    /\ xout = <<>>
    /\ \E p \in Payloads, f \in FeatureSets :
           codec = [IdleCodec EXCEPT !.pc = "new", !.p = p, !.f = f]

\* writeRecord lines 574-585: the header and the bytes that follow it
CodecEncode ==
    /\ codec.pc = "new"
    /\ LET bs == storedBytes(codec.f, codec.p) IN
       codec' = [codec EXCEPT !.pc = "stored",
                              !.hdr = headerBytes(1, codec.f, Len(bs)),
                              !.stored = bs]
    /\ UNCHANGED <<dbVars, fetchVars, apiVars, xout>>

\* one byte of the stored payload changes on disk
CodecTamper ==
    /\ codec.pc = "stored"
    /\ ~codec.tampered
    /\ \E i \in 1..Len(codec.stored), b \in PayloadBytes :
           /\ b # codec.stored[i]
           /\ codec' = [codec EXCEPT !.stored[i] = b, !.tampered = TRUE]
    /\ UNCHANGED <<dbVars, fetchVars, apiVars, xout>>

\* nextRecord lines 530-551 on the stored bytes
CodecDecode ==
    /\ codec.pc = "stored"
    /\ codec' = [codec EXCEPT !.pc = "decoded",
                              !.out = decodePayload(u16at(codec.hdr, 3), codec.stored)]
    /\ UNCHANGED <<dbVars, fetchVars, apiVars, xout>>

CodecNext == CodecEncode \/ CodecTamper \/ CodecDecode

CodecSpec == CodecInit /\ [][CodecNext]_vars

-----------------------------------------------------------------------------
(* ApiSpec: goroutines that call the methods of one DB.  A method that     *)
(* takes db.Mutex holds it from its first step to its last; an append is   *)
(* the three file operations of writeRecord, one step each.  ReadMessage   *)
(* and Rewind take no lock: their file operations are steps that any other *)
(* step may come between.                                                  *)

ApiFiles == { <<>>, FileHeader0 \o RecL1 \o RecM1 }

ApiBodies == { <<7>> }

ApiLabelLists == { <<>>, <<La>> }

ApiInit ==
    /\ file \in ApiFiles
    /\ pos = 0
    /\ dbState = "closed"
    /\ labels = NoLabels
    /\ labelsChanged = {}
    /\ haveMsgID = {}
    /\ IdleFetch
    /\ codec = IdleCodec
    /\ IdleApi
    /\ xout = <<>>

\* db.Open, before any goroutine has the DB
ApiOpen ==
    /\ dbState = "closed"
    /\ \E now \in CreateTimes : Opened(openResult(file, now))
    /\ UNCHANGED <<fetchVars, codec, apiVars, xout>>

\* a call may begin: the DB is open and the caller is in no call
Ready(c) ==
    /\ dbState = "open"
    /\ cpc[c] = "idle"
    /\ ncalls < MaxCalls
    /\ ncalls' = ncalls + 1

\* the call of c returns
Returned(c, call) ==
    /\ lastCall' = [call EXCEPT !.caller = c, !.hdr = <<>>]
    /\ cop' = [cop EXCEPT ![c] = NoCall]
    /\ cpc' = [cpc EXCEPT ![c] = "idle"]

\* db.HaveUID(msgid), lines 456-460
ApiHaveUID(c) ==
    /\ Ready(c)
    /\ mutex = 0
    /\ \E msgid \in MsgIds :
           Returned(c, [NoCall EXCEPT !.op = "HaveUID", !.msgid = msgid,
                                      !.ret = IF HaveUID(msgid) THEN "true" ELSE "false"])
    /\ UNCHANGED <<dbVars, fetchVars, codec, xout, mutex>>

\* db.Size(), lines 450-454
ApiSize(c) ==
    /\ Ready(c)
    /\ mutex = 0
    /\ Returned(c, [NoCall EXCEPT !.op = "Size", !.n = Size])
    /\ UNCHANGED <<dbVars, fetchVars, codec, xout, mutex>>

\* db.Labels(msgid), lines 462-466
ApiLabels(c) ==
    /\ Ready(c)
    /\ mutex = 0
    /\ \E msgid \in MsgIds :
           Returned(c, [NoCall EXCEPT !.op = "Labels", !.msgid = msgid, !.lbls = Labels(msgid)])
    /\ UNCHANGED <<dbVars, fetchVars, codec, xout, mutex>>

\* db.SetLabels(msgid, labels), lines 468-473
ApiSetLabels(c) ==
    /\ Ready(c)
    /\ mutex = 0
    /\ \E msgid \in MsgIds, lbls \in ApiLabelLists :
           /\ SetLabels(msgid, lbls)
           /\ Returned(c, [NoCall EXCEPT !.op = "SetLabels", !.msgid = msgid, !.lbls = lbls])
    /\ UNCHANGED <<file, pos, dbState, haveMsgID, fetchVars, codec, xout, mutex>>

\* an append that leaves the lock free
BeginAppend_noLock(c, call, rtype, features, bs) ==
    /\ mutex' = mutex
    /\ pos' = Len(file)
    /\ cop' = [cop EXCEPT ![c] = [call EXCEPT !.hdr = headerFor(rtype, features, bs),
                                              !.bs = bs]]
    /\ cpc' = [cpc EXCEPT ![c] = "header"]
    /\ lastCall' = lastCall

\* writeRecord, lines 574-587, under the lock its caller took: the bytes
\* are made ready and db.fd.Seek(0, os.SEEK_END) moves the cursor
BeginAppend(c, call, rtype, features, bs) ==
    /\ mutex' = c
    /\ pos' = Len(file)
    /\ cop' = [cop EXCEPT ![c] = [call EXCEPT !.hdr = headerFor(rtype, features, bs),
                                              !.bs = bs]]
    /\ cpc' = [cpc EXCEPT ![c] = "header"]
    /\ lastCall' = lastCall

\* db.WriteMessage(msgid, data), lines 475-486, up to the seek
ApiWriteMessage(c) ==
    /\ Ready(c)
    /\ mutex = 0
    /\ \E msgid \in MsgIds, data \in ApiBodies :
           BeginAppend(c, [NoCall EXCEPT !.op = "WriteMessage", !.msgid = msgid],
                       MessageRecordType, FeatureCompressed + FeatureHashed,
                       storedBytes(FeatureCompressed + FeatureHashed,
                                   MarshalMessage(msgid, data)))
    /\ UNCHANGED <<file, dbState, labels, labelsChanged, haveMsgID, fetchVars, codec, xout>>

\* db.WriteLabels(), lines 497-515, up to the seek
ApiWriteLabels(c) ==
    /\ Ready(c)
    /\ mutex = 0
    /\ \E order \in Orders(labelsChanged) :
           BeginAppend(c, [NoCall EXCEPT !.op = "WriteLabels"],
                       LabelsRecordType, FeatureCompressed,
                       storedBytes(FeatureCompressed, MarshalLabels(labelsRecord(order))))
    /\ labelsChanged' = {}
    /\ UNCHANGED <<file, dbState, labels, haveMsgID, fetchVars, codec, xout>>

\* writeRecord, line 588: binary.Write(db.fd, binary.LittleEndian, hdr)
ApiWriteHeader(c) ==
    /\ dbState = "open"
    /\ cpc[c] = "header"
    /\ pos + Len(cop[c].hdr) <= MaxFileLen
    /\ file' = pwrite(file, pos, cop[c].hdr)
    /\ pos' = pos + Len(cop[c].hdr)
    /\ cpc' = [cpc EXCEPT ![c] = "payload"]
    /\ UNCHANGED <<dbState, labels, labelsChanged, haveMsgID, fetchVars, codec, xout,
                   cop, lastCall, mutex, ncalls>>

\* writeRecord, lines 589-590: db.fd.Write(bs), db.fd.Sync(), and the
\* deferred db.Unlock() of the caller
ApiWritePayload(c) ==
    /\ dbState = "open"
    /\ cpc[c] = "payload"
    /\ pos + Len(cop[c].bs) <= MaxFileLen
    /\ file' = pwrite(file, pos, cop[c].bs)
    /\ pos' = pos + Len(cop[c].bs)
    /\ mutex' = 0
    /\ Returned(c, [cop[c] EXCEPT !.ret = "nil", !.bs = <<>>])
    /\ UNCHANGED <<dbState, labels, labelsChanged, haveMsgID, fetchVars, codec, xout, ncalls>>

\* nextRecord, lines 520-523: binary.Read of a record header at the cursor
ReadHeader(c, call) ==
    IF pos >= Len(file) THEN
        /\ Returned(c, [call EXCEPT !.ret = "EOF"])
        /\ pos' = pos
    ELSE IF Len(file) - pos < RecordHeaderLen THEN
        /\ Returned(c, [call EXCEPT !.ret = "ErrUnexpectedEOF"])
        /\ pos' = Len(file)
    ELSE
        /\ cop' = [cop EXCEPT ![c] = [call EXCEPT !.hdr = SubSeq(file, pos + 1, pos + RecordHeaderLen)]]
        /\ cpc' = [cpc EXCEPT ![c] = "body"]
        /\ lastCall' = lastCall
        /\ pos' = pos + RecordHeaderLen

\* db.ReadMessage(), lines 488-495: the call begins, with no lock
ApiReadMessage(c) ==
    /\ Ready(c)
    /\ ReadHeader(c, [NoCall EXCEPT !.op = "ReadMessage"])
    /\ UNCHANGED <<file, dbState, labels, labelsChanged, haveMsgID, fetchVars, codec, xout,
                   mutex>>

\* nextRecord, lines 525-528: a record of another type is stepped over
ApiReadSkip(c) ==
    /\ dbState = "open"
    /\ cpc[c] = "body"
    /\ u16at(cop[c].hdr, 1) # MessageRecordType
    /\ pos' = seekCur(pos, u32at(cop[c].hdr, 5))
    /\ cpc' = [cpc EXCEPT ![c] = "header2"]
    /\ UNCHANGED <<file, dbState, labels, labelsChanged, haveMsgID, fetchVars, codec, xout,
                   cop, lastCall, mutex, ncalls>>

\* nextRecord, lines 518-523, after "continue"
ApiReadNext(c) ==
    /\ dbState = "open"
    /\ cpc[c] = "header2"
    /\ ReadHeader(c, cop[c])
    /\ UNCHANGED <<file, dbState, labels, labelsChanged, haveMsgID, fetchVars, codec, xout,
                   mutex, ncalls>>

\* nextRecord, lines 536-560, for a Message record
decodedMessage(payload) ==
    IF payload.status = "panic" THEN [status |-> "panic", rec |-> NoRecord]
    ELSE typedRecord(MessageRecordType, payload.data)

\* nextRecord, lines 530-560: fd.Read(data) returned n bytes at offset p
readMessage(f, p, features, length, n) ==
    IF n < 0 THEN [status |-> "eof", rec |-> NoRecord]
    ELSE decodedMessage(decodePayload(features, readBuffer(f, p, n, length)))

\* ReadMessage, lines 489-494, with the result r of nextRecord
ReadBody(c, n, r) ==
    /\ pos' = IF n < 0 THEN pos ELSE pos + n
    /\ dbState' = IF r.status = "panic" THEN "panic" ELSE dbState
    /\ Returned(c, [cop[c] EXCEPT !.ret = IF r.status = "eof" THEN "EOF" ELSE r.status,
                                  !.msgid = r.rec.MessageID,
                                  !.bs = r.rec.Data])

\* nextRecord, lines 530-560: the payload of a Message record is read
ApiReadBody(c) ==
    /\ dbState = "open"
    /\ cpc[c] = "body"
    /\ u16at(cop[c].hdr, 1) = MessageRecordType
    /\ ReadBody(c, readCount(file, pos, u32at(cop[c].hdr, 5)),
                readMessage(file, pos, u16at(cop[c].hdr, 3), u32at(cop[c].hdr, 5),
                            readCount(file, pos, u32at(cop[c].hdr, 5))))
    /\ UNCHANGED <<file, labels, labelsChanged, haveMsgID, fetchVars, codec, xout, mutex, ncalls>>

\* db.Rewind(), lines 446-448, with no lock
ApiRewind(c) ==
    /\ Ready(c)
    /\ pos' = fileHeaderLength
    /\ Returned(c, [NoCall EXCEPT !.op = "Rewind"])
    /\ UNCHANGED <<file, dbState, labels, labelsChanged, haveMsgID, fetchVars, codec, xout,
                   mutex>>

ApiNext ==
    \/ ApiOpen
    \/ \E c \in Callers : ApiHaveUID(c)
    \/ \E c \in Callers : ApiSize(c)
    \/ \E c \in Callers : ApiLabels(c)
    \/ \E c \in Callers : ApiSetLabels(c)
    \/ \E c \in Callers : ApiWriteMessage(c)
    \/ \E c \in Callers : ApiWriteLabels(c)
    \/ \E c \in Callers : ApiWriteHeader(c)
    \/ \E c \in Callers : ApiWritePayload(c)
    \/ \E c \in Callers : ApiReadMessage(c)
    \/ \E c \in Callers : ApiReadSkip(c)
    \/ \E c \in Callers : ApiReadNext(c)
    \/ \E c \in Callers : ApiReadBody(c)
    \/ \E c \in Callers : ApiRewind(c)

ApiSpec == ApiInit /\ [][ApiNext]_vars

-----------------------------------------------------------------------------
(* WriterSpec: the goroutines of a fetch run as callers of the package.
   The scanner calls SetLabels and WriteLabels, the workers WriteMessage;
   none of them reads the file. *)

WriterNext ==
    \/ ApiOpen
    \/ \E c \in Callers : ApiSetLabels(c)
    \/ \E c \in Callers : ApiWriteMessage(c)
    \/ \E c \in Callers : ApiWriteLabels(c)
    \/ \E c \in Callers : ApiWriteHeader(c)
    \/ \E c \in Callers : ApiWritePayload(c)

WriterSpec == ApiInit /\ [][WriterNext]_vars

-----------------------------------------------------------------------------
(* ExportSpec: the "mbox" case of main.  The output is kept as the list of *)
(* units written, a unit as its lines, a line as a header key and a value. *)

\* strconv.FormatInt(n, 10) of n >= 0, as bytes
RECURSIVE FormatInt(_)
FormatInt(n) == IF n < 10 THEN <<48 + n>> ELSE FormatInt(n \div 10) \o <<48 + (n % 10)>>

\* strings.Join(ss, ", "), as bytes
RECURSIVE Join(_)
Join(ss) ==
    IF ss = <<>> THEN <<>>
    ELSE IF Len(ss) = 1 THEN ss[1]
    ELSE ss[1] \o <<44, 32>> \o Join(Tail(ss))

\* bufio.ScanLines: a line without its trailing "\r"
dropCR(line) ==
    IF line # <<>> /\ line[Len(line)] = 13 THEN SubSeq(line, 1, Len(line) - 1) ELSE line

\* the lines of data up to the newline at offset i, and those after it
RECURSIVE scanLines(_)
linesAt(data, i) ==
    IF i = 0 THEN <<dropCR(data)>>
    ELSE <<dropCR(SubSeq(data, 1, i - 1))>> \o scanLines(SubSeq(data, i + 1, Len(data)))

\* bufio.NewScanner(bytes.NewBuffer(rec.Data)), s.Scan(), s.Bytes()
scanLines(data) ==
    IF data = <<>> THEN <<>>
    ELSE linesAt(data, IF \E i \in DOMAIN data : data[i] = 10
                       THEN CHOOSE i \in DOMAIN data :
                                data[i] = 10 /\ \A j \in 1..(i - 1) : data[j] # 10
                       ELSE 0)

\* "From "
FromPrefix == <<70, 114, 111, 109, 32>>

\* mbox, lines 291-296: a body line, with ">" before a line that starts "From "
bodyLine(line) ==
    [k |-> "", v |-> IF Len(line) >= Len(FromPrefix)
                        /\ SubSeq(line, 1, Len(FromPrefix)) = FromPrefix
                     THEN <<62>> \o line ELSE line]

\* a unit that has the labels header whatever the labels
labelsHeader_always(lbls) == <<[k |-> "X-Gmail-Labels", v |-> Join(lbls)]>>

\* mbox, lines 285-287: the labels header of a message
labelsHeader(lbls) ==
    IF Len(lbls) > 0 THEN <<[k |-> "X-Gmail-Labels", v |-> Join(lbls)]>> ELSE <<>>

\* mbox, lines 284-298: the unit of the Message record rec with labels lbls
mboxUnit(rec, lbls) ==
    <<[k |-> "From", v |-> <<>>]>>
    \o labelsHeader(lbls)
    \o <<[k |-> "X-Gmail-MsgID", v |-> FormatInt(rec.MessageID)]>>
    \o [i \in DOMAIN scanLines(rec.Data) |-> bodyLine(scanLines(rec.Data)[i])]
    \o <<[k |-> "", v |-> <<>>]>>

RecM3 == MessageBytes(3, <<70, 114, 111, 109, 32, 120, 10, 98>>)
RecL3 == LabelsBytes(<<[MessageID |-> 2, Labels |-> <<Lb>>],
                       [MessageID |-> 1, Labels |-> <<La, Lb>>]>>)

\* README, Delete Record: SEQUENCE DeleteRecord of INTEGER MessageID
MarshalDelete(ids) ==
    derTLV(TagSequence, derConcat([i \in 1..Len(ids) |-> derInt(ids[i])]))

\* a Delete record for message 1, as another writer of the format leaves it
RecD1 == recordBytes(DeleteRecordType, 0, MarshalDelete(<<1>>))

ExportRecords == {RecM1, RecM2, RecM3, RecL0, RecL1, RecL2, RecL3, RecD1}

RECURSIVE concat(_)
concat(ss) == IF ss = <<>> THEN <<>> ELSE ss[1] \o concat(Tail(ss))

\* messages 1, 2, 3, then labels {1: [a]}, then {2: [b]}, {1: [a, b]}
ScenarioFile == FileHeader0 \o RecM1 \o RecM2 \o RecM3 \o RecL1 \o RecL3

ExportFiles ==
    {FileHeader0 \o concat(rs) : rs \in BoundedSeqs(ExportRecords, MaxRecords)}
    \cup {ScenarioFile} \cup InitFiles

ExportInit ==
    /\ file \in ExportFiles
    /\ pos = 0
    /\ dbState = "closed"
    /\ labels = NoLabels
    /\ labelsChanged = {}
    /\ haveMsgID = {}
    /\ mailbox = [Messages |-> 0, list |-> <<>>]
    /\ mpc = "mbox"
    /\ spc = "idle"
    /\ step = 0
    /\ begin = 0
    /\ end = 0
    /\ hist = NoHist
    /\ msgids = <<>>
    /\ fetch = 0
    /\ out = <<>>
    /\ closed = FALSE
    /\ wpc = [w \in Workers |-> "idle"]
    /\ wmsg = [w \in Workers |-> NoMsg]
    /\ progress = [toScan |-> 0, scanned |-> 0, fetched |-> 0, labels |-> 0]
    /\ codec = IdleCodec
    /\ IdleApi
    /\ xout = <<>>

\* main, lines 126-130: db.Open; an error is log.Fatal
MboxOpen ==
    /\ mpc = "mbox"
    /\ \E now \in CreateTimes : Opened(openResult(file, now))
    /\ mpc' = IF dbState' = "open" THEN "export" ELSE "failed"
    /\ UNCHANGED <<mailbox, scanVars, out, closed, wpc, wmsg, progress, hist, codec, apiVars, xout>>

\* mbox, lines 279-302, with the result r of db.ReadMessage(): a unit is
\* written; or io.EOF ends the loop; or, on another error, rec is nil and
\* rec.MessageID panics
mboxStep(r) ==
    /\ pos' = r.pos
    /\ xout' = IF r.status = "rec"
               THEN Append(xout, mboxUnit(r.rec, Labels(r.rec.MessageID))) ELSE xout
    /\ mpc' = IF r.status = "rec" THEN "export"
              ELSE IF r.status = "eof" THEN "exported" ELSE "panic"

\* mbox, lines 278-304: one turn of the loop
MboxRead ==
    /\ mpc = "export"
    /\ mboxStep(nextRecord(file, pos, MessageRecordType))
    /\ UNCHANGED <<file, dbState, labels, labelsChanged, haveMsgID, mailbox, scanVars,
                   out, closed, wpc, wmsg, progress, hist, codec, apiVars>>

ExportNext == MboxOpen \/ MboxRead

ExportSpec == ExportInit /\ [][ExportNext]_vars

-----------------------------------------------------------------------------
(* Properties of the fetch command (Spec) *)

\* C1: when db.WriteMessage(id, data) has returned without error, HaveUID(id)
\* is true and Size() counts id, with no reopen in between.
C1_WrittenIsKnown ==
    \A w \in Workers :
        wpc[w] = "count" =>
            /\ HaveUID(wmsg[w].MsgID)
            /\ Size = Cardinality(haveMsgID \cup {wmsg[w].MsgID})

RECURSIVE tailAt(_, _)
\* the offset of the record header whose payload is not whole in f, walking
\* the records from offset p by their Length fields; -1 when every record
\* is whole or the last header is not whole
tailAt(f, p) ==
    IF p + RecordHeaderLen > Len(f) THEN -1
    ELSE IF u32at(f, p + 5) > Len(f) - p - RecordHeaderLen THEN p
    ELSE tailAt(f, p + RecordHeaderLen + u32at(f, p + 5))

\* f ends in a whole record header followed by none or a part of its payload
TruncatedTail(f) == magicOK(f) /\ tailAt(f, fileHeaderLength) >= fileHeaderLength

WithoutTail(f) == SubSeq(f, 1, tailAt(f, fileHeaderLength))

\* C4: Open of a file that ends in a truncated record succeeds, and the
\* index it builds is the index of the same file without that record.
C4_TruncatedTailOpens ==
    (mpc \in {"opened", "failed"} /\ TruncatedTail(file)) =>
        /\ dbState = "open"
        /\ labels = openResult(WithoutTail(file), 1351123200).labels
        /\ haveMsgID = openResult(WithoutTail(file), 1351123200).haveMsgID

\* C5: a worker that found the queue closed and drained returns, which is
\* what lets wg.Wait() in main complete; it does not go back to receiving.
C5_WorkersReturn ==
    [][\A w \in Workers : wpc[w] = "break" => wpc'[w] \in {"break", "returned"}]_vars

RECURSIVE labelEntries(_, _)
\* the entries of the Labels records of f from offset p on, in file order
labelEntries(f, p) ==
    LET r == nextRecord(f, p, LabelsRecordType)
    IN IF r.status = "rec" THEN r.rec.entries \o labelEntries(f, r.pos) ELSE <<>>

\* the labels of the last entry for msgid, or none
lastLabels(entries, msgid) ==
    LET at == {i \in DOMAIN entries : entries[i].MessageID = msgid}
    IN IF at = {} THEN <<>>
       ELSE entries[CHOOSE i \in at : \A j \in at : j <= i].Labels

\* C6: after Open, the labels of an id are those of the last Labels-record
\* entry for that id in the file, whatever earlier entries said.
C6_LastWriterWins ==
    mpc = "opened" =>
        \A id \in MsgIds \cup DOMAIN labels :
            Labels(id) = lastLabels(labelEntries(file, fileHeaderLength), id)

\* an id that two entries of the file label differently has been replayed
C6_Witness ==
    /\ mpc = "opened"
    /\ \E i, j \in DOMAIN labelEntries(file, fileHeaderLength) :
           /\ i < j
           /\ labelEntries(file, fileHeaderLength)[i].MessageID
                  = labelEntries(file, fileHeaderLength)[j].MessageID
           /\ labelEntries(file, fileHeaderLength)[i].Labels
                  # labelEntries(file, fileHeaderLength)[j].Labels

\* C7: the listing window starts at 100 and stays within [100, 3200]; a
\* round that emitted nothing doubles it when below 3200, a round that
\* emitted something halves it when above 100, otherwise it stays.
C7_Window ==
    /\ [](spc # "idle" => step \in 100..3200)
    /\ []((spc = "loop" /\ begin = 1) => step = 100)
    /\ [][(spc = "adjust" /\ spc' = "loop") =>
             step' = IF fetch = 0 THEN (IF step < 3200 THEN 2 * step ELSE step)
                     ELSE (IF step > 100 THEN step \div 2 ELSE step)]_vars

\* the window has reached the ceiling, stayed there or come down again
C7_Witness == spc = "loop" /\ begin > 6301 /\ step \in {1600, 3200}

\* the offsets of f at which a whole, well-formed Message record starts
messageOffsets(f) ==
    {p \in fileHeaderLength..(Len(f) - RecordHeaderLen) :
        /\ u16at(f, p + 1) = MessageRecordType
        /\ u32at(f, p + 5) <= Len(f) - p - RecordHeaderLen
        /\ nextRecord(SubSeq(f, 1, p + RecordHeaderLen + u32at(f, p + 5)), p, AnyType).status = "rec"}

messageIdAt(f, p) ==
    nextRecord(SubSeq(f, 1, p + RecordHeaderLen + u32at(f, p + 5)), p, AnyType).rec.MessageID

\* C8: the listing names each message id at most once, and then the file
\* never holds two Message records for one id.
C8_OneRecordPerId ==
    \A p, q \in messageOffsets(file) :
        messageIdAt(file, p) = messageIdAt(file, q) => p = q

\* the run is over: a message the archive had was listed again and skipped,
\* and a message it did not have was stored
C8_Witness ==
    /\ closed /\ out = <<>>
    /\ \A w \in Workers : wpc[w] \in {"recv", "break"}
    /\ progress.fetched > 0
    /\ \E i \in DOMAIN mailbox.list :
           /\ mailbox.list[i].MsgID \in haveMsgID
    /\ Cardinality(messageOffsets(file)) = 2

-----------------------------------------------------------------------------
(* Properties of the record codec (CodecSpec) *)

\* C9: for every payload p and each of the four feature combinations,
\* decoding the bytes writeRecord stores for p under the feature bits of the
\* header gives exactly p, and the Length field of the header is the number
\* of bytes stored (the hash, and the payload as compressed or not).
C9_RoundTrip ==
    (codec.pc = "decoded" /\ ~codec.tampered) =>
        /\ codec.out.status = "ok"
        /\ codec.out.data = codec.p
        /\ u16at(codec.hdr, 3) = codec.f
        /\ u32at(codec.hdr, 5) = Len(codec.stored)
        /\ Len(codec.stored) =
               (IF hasFeature(codec.f, FeatureHashed) THEN HashLen ELSE 0)
               + (IF hasFeature(codec.f, FeatureCompressed)
                  THEN Len(compress(codec.p)) ELSE Len(codec.p))

\* a payload of the longest kind, hashed and compressed, has come back
C9_Witness ==
    /\ codec.pc = "decoded"
    /\ ~codec.tampered
    /\ codec.f = FeatureHashed + FeatureCompressed
    /\ Len(codec.p) = MaxLen
    /\ codec.out.data = codec.p

\* C10 as stated: a Hashed record of which any stored byte has changed
\* does not decode.
C10_AnyChangeDetected ==
    (codec.pc = "decoded" /\ codec.tampered /\ hasFeature(codec.f, FeatureHashed)) =>
        codec.out.status = "panic"

\* C10, amended: a Hashed record of which a stored byte has changed decodes,
\* if it does, to the payload that was written and under the hash that was
\* written; when the record is not compressed it does not decode at all.
C10_ChangedDataDetected ==
    (codec.pc = "decoded" /\ codec.tampered /\ hasFeature(codec.f, FeatureHashed)) =>
        /\ codec.out.status = "ok" =>
               /\ codec.out.data = codec.p
               /\ SubSeq(codec.stored, 1, HashLen) = hash(codec.p)
        /\ ~hasFeature(codec.f, FeatureCompressed) => codec.out.status = "panic"

\* a changed byte of the data of a hashed record has stopped the decoding
C10_Witness ==
    /\ codec.pc = "decoded"
    /\ codec.tampered
    /\ codec.f = FeatureHashed
    /\ codec.p # <<>>
    /\ SubSeq(codec.stored, 1, HashLen) = hash(codec.p)
    /\ codec.out.status = "panic"

-----------------------------------------------------------------------------
(* Properties of the db package under concurrent callers (ApiSpec) *)

\* C2: a WriteMessage call for an id that has a Message record in the file
\* already does not return without error having appended a second one.
C2_DuplicateRejected ==
    (lastCall.op = "WriteMessage" /\ lastCall.ret = "nil") =>
        Cardinality({p \in messageOffsets(file) :
                        messageIdAt(file, p) = lastCall.msgid}) <= 1

IsPrefix(s, t) == Len(s) <= Len(t) /\ SubSeq(t, 1, Len(s)) = s

\* C3: whatever the calls and however their steps interleave, the file
\* before a step is a prefix, byte for byte, of the file after it.
C3_AppendOnly == [][IsPrefix(file, file')]_vars

-----------------------------------------------------------------------------
(* Properties of the export (ExportSpec) *)

RECURSIVE fileMessageIds(_, _)
\* the ids of the Message records of f from offset p on, in file order
fileMessageIds(f, p) ==
    LET r == nextRecord(f, p, AnyType)
    IN IF r.status # "rec" THEN <<>>
       ELSE (IF r.rec.type = MessageRecordType THEN <<r.rec.MessageID>> ELSE <<>>)
            \o fileMessageIds(f, r.pos)

\* the values of the lines of unit u that have header key
headerValues(u, key) == SelectSeq([i \in DOMAIN u |-> IF u[i].k = key THEN <<u[i].v>> ELSE <<>>],
                                  LAMBDA x : x # <<>>)

RECURSIVE intSet(_)
\* the INTEGERs at the head of bs
intSet(bs) ==
    IF bs = <<>> \/ ~parseInt(bs).ok THEN {}
    ELSE {parseInt(bs).value} \cup intSet(parseInt(bs).rest)

RECURSIVE deletedIds(_, _)
\* the ids that the Delete records of f from offset p on list
deletedIds(f, p) ==
    IF p + RecordHeaderLen > Len(f) \/ u32at(f, p + 5) > Len(f) - p - RecordHeaderLen
    THEN {}
    ELSE (IF u16at(f, p + 1) = DeleteRecordType
          THEN intSet(parseTLV(decodePayload(u16at(f, p + 3),
                                             SubSeq(f, p + RecordHeaderLen + 1,
                                                    p + RecordHeaderLen + u32at(f, p + 5))).data).content)
          ELSE {})
         \cup deletedIds(f, p + RecordHeaderLen + u32at(f, p + 5))

\* C12: the export writes no unit for an id that a Delete record of the
\* file lists, and Size() does not count such an id.
C12_DeletedExcluded ==
    mpc = "exported" =>
        /\ \A i \in DOMAIN xout :
               \A id \in deletedIds(file, fileHeaderLength) :
                   headerValues(xout[i], "X-Gmail-MsgID") # <<<<FormatInt(id)>>>>
        /\ Size = Cardinality({fileMessageIds(file, fileHeaderLength)[i] :
                                  i \in DOMAIN fileMessageIds(file, fileHeaderLength)}
                              \ deletedIds(file, fileHeaderLength))

-----------------------------------------------------------------------------
(* Properties of Open, under Spec *)

\* the file is not empty and does not start with the magic number
wrongMagic(f) == f # <<>> /\ (Len(f) < 4 \/ SubSeq(f, 1, 4) # le32(fileMagic))

\* C13: Open of a non-empty file whose magic number is wrong returns an
\* error and no DB, takes no record of the file into the index or the
\* labels, and leaves the file as it was.
C13_WrongMagicRejected ==
    [][(mpc = "start" /\ wrongMagic(file)) =>
           /\ dbState' = "error"
           /\ mpc' = "failed"
           /\ file' = file
           /\ haveMsgID' = {}
           /\ labels' = NoLabels
           /\ labelsChanged' = {}]_vars

C13_Witness ==
    /\ mpc = "failed"
    /\ dbState = "error"
    /\ file = ForeignHeader \o RecM1
    /\ haveMsgID = {}

-----------------------------------------------------------------------------
(* Properties of the scanner, under Spec *)

\* C14: the Labels record that the scanner's WriteLabels call appends at
\* the end of a round holds one entry or more, also in a round that
\* changed no label.
C14_LabelsRecordNotEmpty ==
    [][(spc = "tuple" /\ spc' = "adjust") =>
           /\ nextRecord(file', Len(file), LabelsRecordType).status = "rec"
           /\ nextRecord(file', Len(file), LabelsRecordType).rec.entries # <<>>]_vars

-----------------------------------------------------------------------------
(* Properties of concurrent appends, under WriterSpec *)

RECURSIVE wholeRecords(_, _)
\* f from offset p on is a sequence of whole records, each of which decodes
wholeRecords(f, p) ==
    IF p = Len(f) THEN TRUE
    ELSE IF p + RecordHeaderLen > Len(f) \/ u32at(f, p + 5) > Len(f) - p - RecordHeaderLen
    THEN FALSE
    ELSE /\ nextRecord(f, p, u16at(f, p + 1)).status = "rec"
         /\ nextRecord(f, p, u16at(f, p + 1)).pos = p + RecordHeaderLen + u32at(f, p + 5)
         /\ wholeRecords(f, p + RecordHeaderLen + u32at(f, p + 5))

\* the bytes that the append of caller c has yet to write
unwritten(c) ==
    IF cpc[c] = "header" THEN cop[c].hdr \o cop[c].bs
    ELSE IF cpc[c] = "payload" THEN cop[c].bs
    ELSE <<>>

\* C15: while WriteMessage and WriteLabels calls of several goroutines
\* interleave, the file after its header is a sequence of whole records
\* whenever no append is under way; during an append it is whole records
\* and the first bytes of the one record being appended, and no second
\* append is under way.
C15_AppendsKeepRecordsWhole ==
    dbState = "open" =>
        /\ mutex = 0 =>
               /\ wholeRecords(file, fileHeaderLength)
               /\ \A c \in Callers : cpc[c] = "idle"
        /\ mutex # 0 =>
               /\ pos = Len(file)
               /\ wholeRecords(file \o unwritten(mutex), fileHeaderLength)
               /\ \A c \in Callers \ {mutex} : cpc[c] = "idle"

C15_Witness ==
    /\ dbState = "open"
    /\ mutex = 0
    /\ lastCall.op = "WriteLabels"
    /\ lastCall.caller = 2
    /\ Len(fileMessageIds(file, fileHeaderLength)) = 2
    /\ Len(labelEntries(file, fileHeaderLength)) = 2

-----------------------------------------------------------------------------
(* Properties of reads among appends, under ApiSpec *)

\* C16: a ReadMessage call resumes where the reads left off, so the call
\* that follows a WriteMessage call, with no Rewind between them and no
\* other call under way, returns a Message record (the appended one at the
\* latest) and not io.EOF.
C16_ReadsResumeAfterAppend ==
    [][(/\ \A c \in Callers : cpc[c] = "idle"
        /\ lastCall.op = "WriteMessage"
        /\ lastCall.ret = "nil"
        /\ lastCall' # lastCall
        /\ lastCall'.op = "ReadMessage")
       => lastCall'.ret # "EOF"]_vars

-----------------------------------------------------------------------------
(* Properties of the lock, under ApiSpec *)

\* C17: every method that reads or moves the file cursor holds the lock
\* for its whole duration, so while one caller holds the lock the cursor
\* is moved by the steps of that caller alone.
C17_CursorUnderLock ==
    [][(mutex # 0 /\ pos' # pos) => cpc'[mutex] # cpc[mutex]]_vars

-----------------------------------------------------------------------------
(* Properties of the listing requests, under Spec *)

\* C18: when the scanner closes the queue, the listing requests, which
\* cover 1..end, have covered every sequence number 1..Messages.
C18_AllListed == closed => end >= mailbox.Messages

\* C19: the first listing request starts at 1; a request is for the range
\* begin..begin+step-1 of the window step it is made with; the next one
\* starts at begin+step, right after the last number of this one.
C19_ContiguousRanges ==
    /\ [](spc = "loop" => begin = end + 1)
    /\ [][(spc = "loop" /\ spc' = "tuple") =>
             /\ begin = (IF end = 0 THEN 1 ELSE end + 1)
             /\ end' = begin + step - 1
             /\ begin' = begin + step
             /\ msgids' = SelectSeq(mailbox.list,
                                    LAMBDA m : begin <= m.Seq /\ m.Seq <= begin + step - 1)]_vars

\* the seventh request, made with the window 1600 after the windows 100,
\* 200, 400, 800, 1600 and 3200, was for 6301..7900
C19_Witness == spc = "tuple" /\ begin = 7901 /\ end = 7900 /\ step = 1600

-----------------------------------------------------------------------------
(* Properties of the queue and the workers, under Spec *)

\* how many elements of the sequence q satisfy Test
countIn(q, Test(_)) == Cardinality({i \in DOMAIN q : Test(q[i])})

\* the workers that hold a pair for which they have yet to append the record
holding(id) == {w \in Workers : wpc[w] = "write" /\ wmsg[w].MsgID = id}

\* the workers that have appended a record and have yet to count it
counting == {w \in Workers : wpc[w] = "count"}

-----------------------------------------------------------------------------
(* Properties of the label flush, under Spec *)

\* the elements of the sequence q
Range(q) == {q[i] : i \in DOMAIN q}

\* the entries of the Labels record that starts at offset p of f
entriesAt(f, p) == nextRecord(f, p, LabelsRecordType).rec.entries

-----------------------------------------------------------------------------
(* Properties of the queue's capacity, under Spec *)

\* C22: in every round the capacity of the queue is the scan window of
\* that round.
C22_CapacityIsWindow == spc \in {"loop", "tuple", "adjust"} => ChanCap = step

-----------------------------------------------------------------------------
(* Properties of the end of the scan, under Spec *)

\* how far the scanner is from its end: first the numbers yet to be
\* listed, then the place in the round, then the tuples yet to be looked at
scanRank(pc) == IF pc = "tuple" THEN 3 ELSE IF pc = "adjust" THEN 2 ELSE IF pc = "loop" THEN 1 ELSE 0

scanLess(left1, pc1, q1, left2, pc2, q2) ==
    \/ left1 < left2
    \/ left1 = left2 /\ scanRank(pc1) < scanRank(pc2)
    \/ left1 = left2 /\ pc1 = pc2 /\ Len(q1) < Len(q2)

\* C23: the scan ends and closes the queue once.  A listing request is
\* made only while numbers are left and moves the cursor up; every step of
\* the scanner brings it nearer to its end; the close comes when the cursor
\* has reached the message count, after the flush of the last round, and
\* is the scanner's last step; no pair is sent once the queue is closed.
C23_ScanEndsAndClosesOnce ==
    /\ [][(spc = "loop" /\ spc' = "tuple") =>
              (begin < mailbox.Messages /\ begin' > begin)]_vars
    /\ [][(spc \in {"loop", "tuple", "adjust"}
           /\ <<spc, begin, msgids>>' # <<spc, begin, msgids>>) =>
              scanLess(mailbox.Messages - begin', spc', msgids',
                       mailbox.Messages - begin, spc, msgids)]_vars
    /\ [][closed' # closed =>
              /\ ~closed
              /\ spc = "loop" /\ spc' = "done"
              /\ begin >= mailbox.Messages
              /\ labelsChanged = {}
              /\ msgids = <<>>]_vars
    /\ [][spc = "done" => spc' = "done"]_vars
    /\ [](spc = "done" <=> closed)
    /\ [][closed => /\ hist'.emitted = hist.emitted
                    /\ (out' = out \/ (out # <<>> /\ out' = Tail(out)))]_vars

\* the scan of the mailbox of 9600 numbers is over and the queue closed,
\* after rounds that sent two pairs
C23_Witness ==
    /\ closed
    /\ spc = "done"
    /\ mailbox.Messages = 9600
    /\ begin > 9600
    /\ Len(hist.emitted) = 2

-----------------------------------------------------------------------------
(* Properties of the index, under Spec *)

\* C24: every id that HaveUID answers true for has a Message record in
\* the file, all of whose bytes are there.
C24_KnownIsInFile ==
    dbState = "open" =>
        \A id \in MsgIds :
            HaveUID(id) => \E p \in messageOffsets(file) : messageIdAt(file, p) = id

-----------------------------------------------------------------------------
(* Properties of appends after a recovery, under Spec *)

\* C25: whatever file Open has accepted, a cut tail included, the file is
\* at any later time one that opens again, and the Open then finds the
\* Message records the first Open found and those the run has appended.
C25_ReopensAfterAppend ==
    dbState = "open" =>
        \A now \in CreateTimes :
            /\ openResult(file, now).state = "open"
            /\ haveMsgID \subseteq openResult(file, now).haveMsgID
            /\ Range(hist.stored) \subseteq openResult(file, now).haveMsgID

-----------------------------------------------------------------------------
(* Properties of the labels and the log, under Spec *)

\* the labels that the map lbls gives msgid; none for a missing key
labelsOf(lbls, msgid) == IF msgid \in DOMAIN lbls THEN lbls[msgid] ELSE <<>>

\* C26: whenever the dirty set is empty, the labels of the DB are those
\* that a replay of the file from the end of its header gives, id by id.
C26_LabelsAreTheLogs ==
    (dbState = "open" /\ labelsChanged = {}) =>
        \A now \in CreateTimes :
            /\ openResult(file, now).state = "open"
            /\ \A id \in MsgIds : Labels(id) = labelsOf(openResult(file, now).labels, id)

-----------------------------------------------------------------------------
(* Properties of a run on the archive of an aborted run, under Spec *)

\* the file f holds a whole Message record of msgid
hasMessage(f, msgid) == \E p \in messageOffsets(f) : messageIdAt(f, p) = msgid

\* C27: on the archive that an aborted run left, the scanner sends a pair
\* for every message of a listing that has no Message record in the file,
\* whether or not its labels are in the file, and for a message whose
\* Message record and present labels are in the file it sends no pair and
\* marks no label dirty.
C27_ResumedRun ==
    [][(spc = "tuple" /\ msgids # <<>> /\ msgids' = Tail(msgids)) =>
           /\ ~hasMessage(file, Head(msgids).MsgID) =>
                  /\ hist'.emitted = Append(hist.emitted, Head(msgids).MsgID)
                  /\ out' = Append(out, [UID |-> Head(msgids).UID, MsgID |-> Head(msgids).MsgID])
           /\ (/\ hasMessage(file, Head(msgids).MsgID)
               /\ lastLabels(labelEntries(file, fileHeaderLength), Head(msgids).MsgID)
                      = Head(msgids).Labels) =>
                  /\ hist'.emitted = hist.emitted
                  /\ out' = out
                  /\ labelsChanged' = labelsChanged
                  /\ labels' = labels]_vars

====
